---- MODULE Spec2Model ----
(***************************************************************************)
(* The MeViS referring-expression video dataset loader                     *)
(* (src/datasets/mevis.py) and the dataset dispatcher                      *)
(* (src/datasets/__init__.py).                                             *)
(*                                                                         *)
(* Python lists are sequences; a Python index i is position i + 1.         *)
(* A str is a sequence of characters: frame names and annotation keys are  *)
(* sequences of decimal digits, captions are sequences of letters and      *)
(* spaces.                                                                 *)
(* A dict is the sequence of its items in insertion order (the manifest)   *)
(* or a function on its keys (mask_dict).                                  *)
(***************************************************************************)
EXTENDS Integers, Sequences, FiniteSets, TLC

VARIABLES
    dataset_file,   \* build_dataset's first argument
    num_frames,     \* args.num_frames, the clip length T
    manifest,       \* meta_expressions.json: "videos", in file order
    mask_json,      \* mask_dict.json: annotation key -> per-frame entries
    phase,          \* "start", "other" (another builder ran), "error", "ready"
    builder,        \* the builder build_dataset invoked and its first argument
    metas,          \* self.metas, the catalog of clip tasks
    mask_dict,      \* self.mask_dict
    rng,            \* state of the module-level generator behind random.randint:
                    \* every draw moves it on; the value drawn is left open
    workers,        \* the worker threads of the loading layer that call __getitem__
    pc,             \* per worker: position inside __getitem__
    idx,            \* per worker: the local idx of __getitem__
    target          \* per worker: the local target of __getitem__

vars == <<dataset_file, num_frames, manifest, mask_json, phase, builder,
          metas, mask_dict, rng, workers, pc, idx, target>>

-----------------------------------------------------------------------------
(* Bounds of the model *)

MaxFrames == 3      \* longest video, in frames
MaxClip == 2        \* largest clip length num_frames
ImgH == 3           \* image height in pixels
ImgW == 2           \* image width in pixels
RngStates == 2      \* distinguishable states of the shared generator

WorkerIds == {"w1", "w2"}

Null == [none |-> TRUE]        \* JSON null / Python None
NoBuilder == [name |-> "none", arg |-> "none"]
NoTarget == [unbound |-> TRUE]  \* target not yet assigned in this attempt

-----------------------------------------------------------------------------
(* Strings *)

\* str(x) of a non-negative integer: its decimal digits
RECURSIVE Str(_)
Str(n) == IF n < 10 THEN <<n>> ELSE Str(n \div 10) \o <<n % 10>>

\* s < t for two str values, as Python's sorted compares them: at the first
\* differing character, else the proper prefix first
RECURSIVE LexLess(_, _)
LexLess(s, t) ==
    IF t = <<>> THEN FALSE
    ELSE IF s = <<>> THEN TRUE
    ELSE IF Head(s) # Head(t) THEN Head(s) < Head(t)
    ELSE LexLess(Tail(s), Tail(t))

RECURSIVE InsertSorted(_, _)
InsertSorted(x, s) ==
    IF s = <<>> THEN <<x>>
    ELSE IF LexLess(x, Head(s)) THEN <<x>> \o s
    ELSE <<Head(s)>> \o InsertSorted(x, Tail(s))

\* sorted(vid_data['frames'])
RECURSIVE Sorted(_)
Sorted(s) == IF s = <<>> THEN <<>> ELSE InsertSorted(Head(s), Sorted(Tail(s)))

LowerChar(c) == IF c = "A" THEN "a" ELSE IF c = "B" THEN "b" ELSE c

\* exp.lower()
Lower(s) == [i \in 1..Len(s) |-> LowerChar(s[i])]

\* s.split(): the maximal runs of non-whitespace characters, in order
RECURSIVE SplitFrom(_, _, _)
SplitFrom(s, i, word) ==
    IF i > Len(s) THEN (IF word = <<>> THEN <<>> ELSE <<word>>)
    ELSE IF s[i] = " "
         THEN (IF word = <<>> THEN <<>> ELSE <<word>>) \o SplitFrom(s, i + 1, <<>>)
         ELSE SplitFrom(s, i + 1, Append(word, s[i]))

Split(s) == SplitFrom(s, 1, <<>>)

\* " ".join(words)
RECURSIVE Join(_)
Join(words) ==
    IF words = <<>> THEN <<>>
    ELSE IF Len(words) = 1 THEN Head(words)
    ELSE Head(words) \o <<" ">> \o Join(Tail(words))

\* " ".join(exp.lower().split())
CleanCaption(exp) == Join(Split(Lower(exp)))

-----------------------------------------------------------------------------
(* Catalog construction *)

\* range(0, vid_len) : the stride dropped
RangeStrideOne(vid_len, step) == [k \in 1..vid_len |-> k - 1]

\* range(0, vid_len, step) as a list
Range(vid_len, step) ==
    [k \in 1..((vid_len + step - 1) \div step) |-> (k - 1) * step]

\* the metas of one expression of one video, one per anchor
ExpMetas(vid, vid_frames, exp_dict, T) ==
    LET anchors == Range(Len(vid_frames), T)
    IN  [k \in 1..Len(anchors) |->
            [video    |-> vid,
             exp      |-> exp_dict.exp,
             obj_id   |-> [n \in 1..Len(exp_dict.obj_id) |-> exp_dict.obj_id[n]],
             anno_id  |-> [n \in 1..Len(exp_dict.anno_id) |-> Str(exp_dict.anno_id[n])],
             frames   |-> vid_frames,
             frame_id |-> anchors[k],
             category |-> 0]]

RECURSIVE VideoMetas(_, _, _, _)
VideoMetas(vid, vid_frames, expressions, T) ==
    IF expressions = <<>> THEN <<>>
    ELSE ExpMetas(vid, vid_frames, Head(expressions), T)
         \o VideoMetas(vid, vid_frames, Tail(expressions), T)

RECURSIVE PrepareMetas(_, _)
PrepareMetas(videos, T) ==
    IF videos = <<>> THEN <<>>
    ELSE VideoMetas(Head(videos).vid, Sorted(Head(videos).frames),
                    Head(videos).expressions, T)
         \o PrepareMetas(Tail(videos), T)

-----------------------------------------------------------------------------
(* Masks and boxes *)

Pixels == (0..(ImgH - 1)) \X (0..(ImgW - 1))     \* <<row, col>>

\* value at flat position k of an uncompressed run-length encoding: the runs
\* alternate, starting with a run of zeros
RECURSIVE BitAt(_, _, _)
BitAt(counts, k, v) ==
    IF counts = <<>> THEN 0
    ELSE IF k < Head(counts) THEN v
    ELSE BitAt(Tail(counts), k - Head(counts), 1 - v)

\* coco_mask.decode: the dense h x w array of an RLE, stored column-major
Decode(rle) == [p \in Pixels |-> BitAt(rle.counts, p[2] * rle.size[1] + p[1], 0)]

\* np.zeros(img.size[::-1])
Zeros == [p \in Pixels |-> 0]

\* the loop with "mask = decode(...)" in place of "mask += decode(...)"
RECURSIVE AccumulateOverwrite(_, _, _, _)
AccumulateOverwrite(mask, anno_id, frame_indx, md) ==
    IF anno_id = <<>> THEN mask
    ELSE LET frm_anno == md[Head(anno_id)][frame_indx + 1]
             next == IF frm_anno # Null THEN Decode(frm_anno) ELSE mask
         IN  AccumulateOverwrite(next, Tail(anno_id), frame_indx, md)

\* the loop of lines 105-108 over the remaining annotation ids
RECURSIVE Accumulate(_, _, _, _)
Accumulate(mask, anno_id, frame_indx, md) ==
    IF anno_id = <<>> THEN mask
    ELSE LET frm_anno == md[Head(anno_id)][frame_indx + 1]
             next == IF frm_anno # Null
                     THEN [p \in Pixels |-> mask[p] + Decode(frm_anno)[p]]
                     ELSE mask
         IN  Accumulate(next, Tail(anno_id), frame_indx, md)

SetMin(S) == CHOOSE x \in S : \A y \in S : x <= y
SetMax(S) == CHOOSE x \in S : \A y \in S : x >= y

\* bounding_box returning <<rmin, cmin, rmax, cmax>>
bounding_box_interleaved(img) ==
    LET rows == {r \in 0..(ImgH - 1) : \E c \in 0..(ImgW - 1) : img[<<r, c>>] # 0}
        cols == {c \in 0..(ImgW - 1) : \E r \in 0..(ImgH - 1) : img[<<r, c>>] # 0}
    IN  <<SetMin(rows), SetMin(cols), SetMax(rows), SetMax(cols)>>

\* bounding_box: <<rmin, rmax, cmin, cmax>> of the nonzero entries
bounding_box(img) ==
    LET rows == {r \in 0..(ImgH - 1) : \E c \in 0..(ImgW - 1) : img[<<r, c>>] # 0}
        cols == {c \in 0..(ImgW - 1) : \E r \in 0..(ImgH - 1) : img[<<r, c>>] # 0}
    IN  <<SetMin(rows), SetMax(rows), SetMin(cols), SetMax(cols)>>

ClampTo(x, lo, hi) == IF x < lo THEN lo ELSE IF x > hi THEN hi ELSE x

\* boxes[:, 0::2].clamp_(0, w); boxes[:, 1::2].clamp_(0, h)
ClampBox(box, w, h) ==
    <<ClampTo(box[1], 0, w), ClampTo(box[2], 0, h),
      ClampTo(box[3], 0, w), ClampTo(box[4], 0, h)>>

\* one pass of the per-frame loop body, lines 98-126
FrameTarget(anno_id, frame_indx, md) ==
    LET mask == Accumulate(Zeros, anno_id, frame_indx, md)
    IN  IF \E p \in Pixels : mask[p] > 0
        THEN LET bb == bounding_box(mask)
             IN  [mask |-> mask, box |-> <<bb[3], bb[1], bb[4], bb[2]>>, valid |-> 1]
        ELSE [mask |-> mask, box |-> <<0, 0, 0, 0>>, valid |-> 0]

\* lines 83-147: the pre-transform target of catalog entry i for the sampled
\* frame indices
BuildTarget(ms, i, sample_indx, md, T) ==
    LET meta == ms[i + 1]
        per == [j \in 1..T |-> FrameTarget(meta.anno_id, sample_indx[j], md)]
    IN  [frames_idx |-> sample_indx,
         labels     |-> [j \in 1..T |-> 0],
         boxes      |-> [j \in 1..T |-> ClampBox(per[j].box, ImgW, ImgH)],
         masks      |-> [j \in 1..T |-> per[j].mask],
         valid      |-> [j \in 1..T |-> per[j].valid],
         caption    |-> CleanCaption(meta.exp),
         size       |-> <<ImgH, ImgW>>,
         video_id   |-> meta.video,
         exp_id     |-> i]

\* a check that only looks at the presence of flags: torch.any(valid >= 0)
InstanceCheckAnyFlag(t) == \E j \in DOMAIN t.valid : t.valid[j] >= 0

\* torch.any(target['valid'] == 1)
InstanceCheck(t) == \E j \in DOMAIN t.valid : t.valid[j] = 1

\* random.randint(a, b): any integer of a..b
RandInt(a, b) == a..b

\* random.randint(0, self.__len__())
RetryIndicesOffByOne(ms) == RandInt(0, Len(ms))

\* line 157: the indices the retry can draw
RetryIndices(ms) == RandInt(0, Len(ms) - 1)

\* FrameSampler.sample_global_frames: clip_length non-decreasing frame
\* indices inside the video
SampleGlobalFrames(frame_id, vid_len, T) ==
    {s \in [1..T -> 0..(vid_len - 1)] : \A j \in 1..(T - 1) : s[j] <= s[j + 1]}

\* self._transforms: the augmentation may clear validity flags (a crop that
\* removes the instance); boxes and masks are rewritten by it and are not
\* part of what the loader decides
Transforms(t) ==
    {[frames_idx |-> t.frames_idx, valid |-> v, caption |-> t.caption,
      video_id |-> t.video_id, exp_id |-> t.exp_id] :
        v \in {u \in [1..Len(t.valid) -> {0, 1}] :
                   \A j \in 1..Len(t.valid) : u[j] <= t.valid[j]}}

-----------------------------------------------------------------------------
(* The files on disk *)

\* frame names whose lexicographic order differs from their numeric order
FrameName(k) == Str(5 * k)

\* "frames" of a video of L frames, listed last frame first
ManifestFrames(L) == [k \in 1..L |-> FrameName(L - k)]

ExprsOne ==
    <<[exp |-> <<"A", " ", " ", "b">>, obj_id |-> <<1>>, anno_id |-> <<7>>]>>

ExprsTwo ==
    <<[exp |-> <<"a", " ", "B", " ">>, obj_id |-> <<1, 2>>, anno_id |-> <<7, 12>>],
      [exp |-> <<" ", "b">>, obj_id |-> <<2>>, anno_id |-> <<12>>]>>

\* an expression whose obj_id and anno_id differ in length
ExprsMismatch ==
    <<[exp |-> <<"a">>, obj_id |-> <<1, 2>>, anno_id |-> <<7>>]>>

SecondVideo ==
    [vid |-> "v2", frames |-> ManifestFrames(1),
     expressions |-> <<[exp |-> <<"b", " ", "A">>, obj_id |-> <<3>>, anno_id |-> <<3>>]>>]

Manifests ==
    {<<[vid |-> "v1", frames |-> ManifestFrames(L), expressions |-> E]>> :
        L \in 0..MaxFrames, E \in {ExprsOne, ExprsTwo, ExprsMismatch}}
    \cup
    {<<[vid |-> "v1", frames |-> ManifestFrames(L), expressions |-> ExprsOne],
       SecondVideo>> : L \in 0..MaxFrames}

\* an RLE of annotation a at frame f: a run of one or two set cells
Rle(a, f) ==
    LET z == (a + f) % (ImgH * ImgW - 1)
        n == 1 + (a % 2)
    IN  [size |-> <<ImgH, ImgW>>, counts |-> <<z, n, ImgH * ImgW - z - n>>]

\* an RLE that decodes to an all-zero array
EmptyRle == [size |-> <<ImgH, ImgW>>, counts |-> <<ImgH * ImgW>>]

\* "none": every entry null; "all": every entry a mask; "mixed": annotation
\* 7 is masked except at every third frame, annotation 12 is never visible
\* (null, or an all-zero mask), annotation 3 is masked
StorePatterns == {"none", "all", "mixed"}

StoreEntry(pat, a, f) ==
    IF pat = "none" THEN Null
    ELSE IF pat = "all" THEN Rle(a, f)
    ELSE IF a = 7 THEN (IF f % 3 # 2 THEN Rle(a, f) ELSE Null)
    ELSE IF a = 12 THEN (IF f % 3 = 1 THEN EmptyRle ELSE Null)
    ELSE Rle(a, f)

\* mask_dict.json for a manifest: one list per annotation key, one entry per
\* frame of the annotation's video
Store(pat, videos) ==
    LET len1 == Len(videos[1].frames)
    IN  [key \in {Str(7), Str(12), Str(3)} |->
            IF key = Str(3) THEN <<StoreEntry(pat, 3, 0)>>
            ELSE IF key = Str(7) THEN [f \in 1..len1 |-> StoreEntry(pat, 7, f - 1)]
            ELSE [f \in 1..len1 |-> StoreEntry(pat, 12, f - 1)]]

DatasetFiles ==
    {"mevis", "ytvos", "davis", "refcoco", "refcoco+", "refcocog", "coco", "MeViS"}

-----------------------------------------------------------------------------
(* Operations *)

\* the state before build_dataset is called, for a set of manifests and a
\* set of worker threads
InitWith(manifests, ws) ==
    /\ dataset_file \in DatasetFiles
    /\ num_frames \in 1..MaxClip
    /\ manifest \in manifests
    /\ mask_json \in {Store(pat, manifest) : pat \in StorePatterns}
    /\ workers = ws
    /\ phase = "start"
    /\ builder = NoBuilder
    /\ metas = <<>>
    /\ mask_dict = <<>>
    /\ rng = 0
    /\ pc = [w \in WorkerIds |-> "idle"]
    /\ idx = [w \in WorkerIds |-> 0]
    /\ target = [w \in WorkerIds |-> NoTarget]

\* one loading worker, every manifest
Init == InitWith(Manifests, {"w1"})

\* a two-frame video with two expressions
TwoFrameManifests ==
    {<<[vid |-> "v1", frames |-> ManifestFrames(2), expressions |-> ExprsTwo]>>}

\* two concurrent workers
InitConcurrent == InitWith(TwoFrameManifests, WorkerIds)

\* the one worker of the runs that follow a single call through its retries
LoopWorker == "w1"

InitLoop == InitWith(TwoFrameManifests, {LoopWorker})

\* build_dataset without the "refcoco+" alternative
DispatchNoPlus(file) ==
    IF file = "mevis" THEN [name |-> "build_mevis", arg |-> "image_set"]
    ELSE IF file = "ytvos" THEN [name |-> "build_ytvos", arg |-> "image_set"]
    ELSE IF file = "davis" THEN [name |-> "build_davis", arg |-> "image_set"]
    ELSE IF file = "refcoco" \/ file = "refcocog"
         THEN [name |-> "build_refexp", arg |-> file]
    ELSE NoBuilder

\* build_dataset: the builder chosen for a dataset_file and the first
\* argument it is called with; name "none" when the ValueError is raised
Dispatch(file) ==
    IF file = "mevis" THEN [name |-> "build_mevis", arg |-> "image_set"]
    ELSE IF file = "ytvos" THEN [name |-> "build_ytvos", arg |-> "image_set"]
    ELSE IF file = "davis" THEN [name |-> "build_davis", arg |-> "image_set"]
    ELSE IF file = "refcoco" \/ file = "refcoco+" \/ file = "refcocog"
         THEN [name |-> "build_refexp", arg |-> file]
    ELSE NoBuilder

\* build_dataset(dataset_file, image_set, args); for 'mevis' it runs
\* build -> MeViSDataset.__init__ -> prepare_metas and loads mask_dict.json
BuildDataset ==
    /\ phase = "start"
    /\ builder' = Dispatch(dataset_file)
    /\ IF builder'.name = "build_mevis"
       THEN /\ metas' = PrepareMetas(manifest, num_frames)
            /\ mask_dict' = mask_json
            /\ phase' = "ready"
       ELSE /\ phase' = IF builder'.name = "none" THEN "error" ELSE "other"
            /\ UNCHANGED <<metas, mask_dict>>
    /\ UNCHANGED <<dataset_file, num_frames, manifest, mask_json, rng, workers, pc, idx, target>>

\* a worker enters __getitem__(i) with a catalog index
Call(w, i) ==
    /\ phase = "ready"
    /\ w \in workers
    /\ pc[w] \in {"idle", "returned"}
    /\ i \in 0..(Len(metas) - 1)
    /\ pc' = [pc EXCEPT ![w] = "lookup"]
    /\ idx' = [idx EXCEPT ![w] = i]
    /\ target' = [target EXCEPT ![w] = NoTarget]
    /\ UNCHANGED <<dataset_file, num_frames, manifest, mask_json, phase, builder,
                   workers, metas, mask_dict, rng>>

\* Build storing the cleaned caption back into the catalog entry
BuildWritingBack(w) ==
    /\ pc[w] = "lookup"
    /\ LET meta == metas[idx[w] + 1]
       IN  \E s \in SampleGlobalFrames(meta.frame_id, Len(meta.frames), num_frames) :
               target' = [target EXCEPT
                             ![w] = BuildTarget(metas, idx[w], s, mask_dict, num_frames)]
    /\ metas' = [metas EXCEPT ![idx[w] + 1].exp = CleanCaption(@)]
    /\ pc' = [pc EXCEPT ![w] = "built"]
    /\ UNCHANGED <<dataset_file, num_frames, manifest, mask_json, phase, builder,
                   workers, mask_dict, rng, idx>>

\* lines 83-147: look the task up, sample the frames, build the target
Build(w) ==
    /\ pc[w] = "lookup"
    /\ LET meta == metas[idx[w] + 1]
       IN  \E s \in SampleGlobalFrames(meta.frame_id, Len(meta.frames), num_frames) :
               target' = [target EXCEPT
                             ![w] = BuildTarget(metas, idx[w], s, mask_dict, num_frames)]
    /\ pc' = [pc EXCEPT ![w] = "built"]
    /\ UNCHANGED <<dataset_file, num_frames, manifest, mask_json, phase, builder,
                   workers, metas, mask_dict, rng, idx>>

\* lines 150-151: the augmentation pipeline
Transform(w) ==
    /\ pc[w] = "built"
    /\ \E t \in Transforms(target[w]) : target' = [target EXCEPT ![w] = t]
    /\ pc' = [pc EXCEPT ![w] = "transformed"]
    /\ UNCHANGED <<dataset_file, num_frames, manifest, mask_json, phase, builder,
                   workers, metas, mask_dict, rng, idx>>

\* lines 154-155 and 159: at least one instance, leave the loop and return
Return(w) ==
    /\ pc[w] = "transformed"
    /\ InstanceCheck(target[w])
    /\ pc' = [pc EXCEPT ![w] = "returned"]
    /\ UNCHANGED <<dataset_file, num_frames, manifest, mask_json, phase, builder,
                   workers, metas, mask_dict, rng, idx, target>>

\* Retry giving up: a NoValidInstanceError instead of another draw
RetryRaise(w) ==
    /\ pc[w] = "transformed"
    /\ ~InstanceCheck(target[w])
    /\ pc' = [pc EXCEPT ![w] = "failed"]
    /\ UNCHANGED <<dataset_file, num_frames, manifest, mask_json, phase, builder,
                   workers, metas, mask_dict, rng, idx, target>>

\* Retry that starts over without assigning the drawn index to idx
RetrySameIndex(w) ==
    /\ pc[w] = "transformed"
    /\ ~InstanceCheck(target[w])
    /\ rng' = (rng + 1) % RngStates
    /\ pc' = [pc EXCEPT ![w] = "lookup"]
    /\ target' = [target EXCEPT ![w] = NoTarget]
    /\ UNCHANGED <<dataset_file, num_frames, manifest, mask_json, phase, builder,
                   workers, metas, mask_dict, idx>>

\* lines 156-157: no instance left, draw another index and start over. The
\* discarded target is dead from here on: the next pass rebinds every local
\* (lines 83-147) before reading it.
Retry(w) ==
    /\ pc[w] = "transformed"
    /\ ~InstanceCheck(target[w])
    /\ \E j \in RetryIndices(metas) : idx' = [idx EXCEPT ![w] = j]
    /\ rng' = (rng + 1) % RngStates
    /\ pc' = [pc EXCEPT ![w] = "lookup"]
    /\ target' = [target EXCEPT ![w] = NoTarget]
    /\ UNCHANGED <<dataset_file, num_frames, manifest, mask_json, phase, builder,
                   workers, metas, mask_dict>>

\* the catalog indices any manifest of the model can produce
TaskIds == 0..(2 * MaxFrames)

Next ==
    \/ BuildDataset
    \/ \E w \in WorkerIds :
        \/ \E i \in TaskIds : Call(w, i)
        \/ Build(w)
        \/ Transform(w)
        \/ Return(w)
        \/ Retry(w)

Spec == Init /\ [][Next]_vars

ConcurrentSpec == InitConcurrent /\ [][Next]_vars

\* catalog entry i can yield a frame with a positive mask pixel
CanBeValid(i) ==
    \E s \in SampleGlobalFrames(metas[i + 1].frame_id, Len(metas[i + 1].frames),
                                num_frames) :
        \E j \in 1..num_frames :
            FrameTarget(metas[i + 1].anno_id, s[j], mask_dict).valid = 1

\* Worker w keeps executing its loop. A draw of random.randint that is
\* possible again and again eventually picks a task that can yield a valid
\* frame, and the sampler and the augmentation, tried again and again on
\* such a task, eventually keep a valid frame.
Fairness(w) ==
    /\ WF_vars(Build(w))
    /\ WF_vars(Transform(w))
    /\ WF_vars(Return(w))
    /\ WF_vars(Retry(w))
    /\ SF_vars(Retry(w) /\ CanBeValid(idx'[w]))
    /\ SF_vars(Build(w) /\ InstanceCheck(target'[w]))
    /\ SF_vars(Transform(w) /\ InstanceCheck(target'[w]))

FairSpec == InitLoop /\ [][Next]_vars /\ Fairness(LoopWorker)

-----------------------------------------------------------------------------
(* Properties *)

Inside == {"built", "transformed", "returned"}

\* the video record of the manifest that a catalog entry names
VideoOf(meta) == CHOOSE v \in {manifest[n] : n \in DOMAIN manifest} : v.vid = meta.video

\* s < t in lexicographic order, stated position by position
StrBefore(s, t) ==
    \E k \in 1..Len(t) :
        /\ k - 1 <= Len(s)
        /\ \A j \in 1..(k - 1) : s[j] = t[j]
        /\ \/ k = Len(s) + 1
           \/ k <= Len(s) /\ s[k] < t[k]

\* C1: every Sample that __getitem__ returns has a frame whose validity flag
\* after augmentation is 1; a sample whose flags are all zero is never returned.
C1_ReturnedHasValidFrame ==
    \A w \in WorkerIds :
        pc[w] = "returned" => \E j \in 1..num_frames : target[w].valid[j] = 1

\* a sample returned after an earlier attempt was discarded, with one frame
\* still invalid
C1_Witness ==
    \E w \in WorkerIds :
        /\ pc[w] = "returned"
        /\ rng = 1
        /\ \E j \in 1..num_frames : target[w].valid[j] = 0

\* the (video, expression, anchor) triples of the manifest for clip length T
Triples ==
    {tr \in (DOMAIN manifest) \X (1..2) \X (0..(MaxFrames + 1)) :
        /\ tr[2] <= Len(manifest[tr[1]].expressions)
        /\ tr[3] < Len(manifest[tr[1]].frames)
        /\ tr[3] % num_frames = 0}

\* C2: the catalog holds exactly one ClipTask per (video, expression, anchor)
\* with the anchors the multiples of T below the video length, so
\* ceil(L / T) tasks per expression, and every task's frame list is the
\* lexicographically sorted frame-name list of its video.
C2_OneTaskPerAnchor ==
    phase = "ready" =>
        /\ Len(metas) = Cardinality(Triples)
        /\ \A tr \in Triples :
              Cardinality({i \in DOMAIN metas :
                              /\ metas[i].video = manifest[tr[1]].vid
                              /\ metas[i].exp = manifest[tr[1]].expressions[tr[2]].exp
                              /\ metas[i].frame_id = tr[3]}) = 1
        /\ \A v \in DOMAIN manifest :
              LET L == Len(manifest[v].frames)
                  perExp == Cardinality({i \in DOMAIN metas :
                                /\ metas[i].video = manifest[v].vid
                                /\ metas[i].exp = manifest[v].expressions[1].exp})
              IN  /\ (perExp - 1) * num_frames < L \/ L = 0
                  /\ perExp * num_frames >= L
        /\ \A i \in DOMAIN metas :
              LET fs == metas[i].frames
                  given == VideoOf(metas[i]).frames
              IN  /\ Len(fs) = Len(given)
                  /\ {fs[k] : k \in DOMAIN fs} = {given[k] : k \in DOMAIN given}
                  /\ \A k \in 1..(Len(fs) - 1) : StrBefore(fs[k], fs[k + 1])

\* three frames "10", "5", "0" and two expressions at clip length 2: four
\* tasks, anchors 0 and 2, frames in the order "0", "10", "5"
C2_Witness ==
    /\ phase = "ready"
    /\ num_frames = 2
    /\ Len(metas) = 4
    /\ metas[1].frames = <<Str(0), Str(10), Str(5)>>
    /\ metas[1].frame_id = 0 /\ metas[2].frame_id = 2

\* the pixels of frame f set in the decoded entry of some annotation id of
\* the list, null entries apart
UnionOfEntries(anno_id, f) ==
    {p \in Pixels :
        \E k \in DOMAIN anno_id :
            /\ mask_dict[anno_id[k]][f + 1] # Null
            /\ Decode(mask_dict[anno_id[k]][f + 1])[p] = 1}

\* C3: accumulating the masks of a frame never fails on a null entry: null
\* entries add nothing, and the positive pixels of the accumulated mask are
\* the union of the pixels of the non-null entries (none when all are null).
C3_MaskIsUnionOfEntries ==
    \A w \in WorkerIds :
        pc[w] = "built" =>
            \A j \in 1..num_frames :
                {p \in Pixels : target[w].masks[j][p] > 0}
                    = UnionOfEntries(metas[idx[w] + 1].anno_id, target[w].frames_idx[j])

\* a built clip of a two-annotation expression with, at one frame, one entry
\* null and the other a mask, and at another frame, both entries null
C3_Witness ==
    \E w \in WorkerIds :
        /\ pc[w] = "built"
        /\ Len(metas[idx[w] + 1].anno_id) = 2
        /\ \E j \in 1..num_frames :
              LET f == target[w].frames_idx[j]
                  a == metas[idx[w] + 1].anno_id
              IN  /\ mask_dict[a[1]][f + 1] # Null
                  /\ mask_dict[a[2]][f + 1] = Null
                  /\ \E p \in Pixels : target[w].masks[j][p] > 0
        /\ \E j \in 1..num_frames :
              LET f == target[w].frames_idx[j]
                  a == metas[idx[w] + 1].anno_id
              IN  /\ mask_dict[a[1]][f + 1] = Null
                  /\ mask_dict[a[2]][f + 1] = Null
                  /\ \A p \in Pixels : target[w].masks[j][p] = 0

\* <<x1, y1, x2, y2>> is the tight box of the positive pixels of mask m
TightBox(m, box) ==
    LET pos == {p \in Pixels : m[p] > 0}
    IN  /\ \E p \in pos : p[2] = box[1]
        /\ \E p \in pos : p[1] = box[2]
        /\ \E p \in pos : p[2] = box[3]
        /\ \E p \in pos : p[1] = box[4]
        /\ \A p \in pos : box[1] <= p[2] /\ p[2] <= box[3]
        /\ \A p \in pos : box[2] <= p[1] /\ p[1] <= box[4]

PreTransformOK(t) ==
    /\ Len(t.valid) = num_frames /\ Len(t.boxes) = num_frames
    /\ \A j \in 1..num_frames :
          IF \E p \in Pixels : t.masks[j][p] > 0
          THEN t.valid[j] = 1 /\ TightBox(t.masks[j], t.boxes[j])
          ELSE t.valid[j] = 0 /\ t.boxes[j] = <<0, 0, 0, 0>>

\* C4: before augmentation, at each of the T clip positions valid is 1 and
\* the box is the tight (min col, min row, max col, max row) box exactly when
\* the accumulated mask has a positive pixel, else valid is 0 and the box is
\* (0,0,0,0); a clip with no positive pixel at any sampled frame keeps valid
\* all zero through the augmentation and is retried.
C4_ValidAndBoxFromMask ==
    [][\A w \in WorkerIds :
          /\ pc'[w] = "built" => PreTransformOK(target'[w])
          /\ (/\ pc[w] = "built" /\ pc'[w] = "transformed"
              /\ \A j \in 1..num_frames : target[w].valid[j] = 0)
                 => \A j \in 1..num_frames : target'[w].valid[j] = 0
          /\ (/\ pc[w] = "transformed" /\ pc'[w] # "transformed"
              /\ \A j \in 1..num_frames : target[w].valid[j] = 0)
                 => pc'[w] = "lookup"]_vars

\* a built clip of two frames, the first with a mask whose box is one column
\* wide and more than one row high, the second without any mask
C4_Witness ==
    \E w \in WorkerIds :
        /\ pc[w] = "built"
        /\ num_frames = 2
        /\ target[w].valid = <<1, 0>>
        /\ target[w].boxes[2] = <<0, 0, 0, 0>>
        /\ target[w].boxes[1][1] = target[w].boxes[1][3]
        /\ target[w].boxes[1][2] < target[w].boxes[1][4]

\* C5: the catalog is built only from manifests whose expressions have
\* obj_id and anno_id of equal length; a mismatch stops the construction.
C5_TasksHaveEqualIdLists ==
    phase = "ready" =>
        /\ \A v \in DOMAIN manifest : \A e \in DOMAIN manifest[v].expressions :
              Len(manifest[v].expressions[e].obj_id)
                  = Len(manifest[v].expressions[e].anno_id)
        /\ \A i \in DOMAIN metas : Len(metas[i].obj_id) = Len(metas[i].anno_id)

\* the state the calls share, loaded once at construction
SharedReadOnly == <<metas, mask_dict>>

\* C6 as stated: after construction no step of any __getitem__ call changes
\* state shared between calls: not the catalog, not the mask record, and not
\* a generator shared by all calls.
C6_NoSharedMutableState ==
    [][phase = "ready" => UNCHANGED <<metas, mask_dict, rng>>]_vars

\* C6, amended: after construction no step of any __getitem__ call changes
\* the catalog or the mask record; the generator behind random.randint is
\* shared by all calls and advanced by each retry.
C6_CatalogAndMasksReadOnly ==
    [][phase = "ready" =>
          /\ UNCHANGED SharedReadOnly
          /\ (rng' # rng =>
                \E w \in WorkerIds : pc[w] = "transformed" /\ pc'[w] = "lookup")]_vars

\* both workers inside __getitem__ at once, after a retry has advanced the
\* shared generator
C6_Witness ==
    /\ workers = WorkerIds
    /\ pc["w1"] = "built"
    /\ pc["w2"] = "transformed"
    /\ rng = 1

\* C7 as stated: a call never resamples for ever; it returns, or fails with
\* NoValidInstanceError once a retry cap is exceeded.
C7_CallEnds ==
    [](pc[LoopWorker] = "lookup"
          => <>(pc[LoopWorker] = "returned" \/ pc[LoopWorker] = "failed"))

\* C7, amended: there is no retry cap and no NoValidInstanceError: every
\* attempt that leaves no frame with valid = 1 is followed by a new draw
\* from the whole catalog and another attempt, whatever number of attempts
\* has failed before.
C7_FailedAttemptAlwaysResamples ==
    [][\A w \in WorkerIds :
          (/\ pc[w] = "transformed" /\ pc'[w] # "transformed"
           /\ \A j \in 1..num_frames : target[w].valid[j] = 0)
              => /\ pc'[w] = "lookup"
                 /\ idx'[w] \in 0..(Len(metas) - 1)]_vars

\* an attempt that failed after the call had already resampled
C7_Witness ==
    /\ pc["w1"] = "transformed"
    /\ pc["w2"] = "idle"
    /\ rng = 1
    /\ \A j \in 1..num_frames : target["w1"].valid[j] = 0

\* C8: build_dataset routes each of 'mevis', 'ytvos', 'davis' to its own
\* builder and the three refcoco kinds to the refexp builder with the kind
\* passed through; any other value raises the unsupported-dataset error and
\* no builder runs.
C8_Dispatch ==
    phase # "start" =>
        /\ dataset_file = "mevis" =>
              builder.name = "build_mevis" /\ phase = "ready"
        /\ dataset_file = "ytvos" =>
              builder.name = "build_ytvos" /\ phase = "other"
        /\ dataset_file = "davis" =>
              builder.name = "build_davis" /\ phase = "other"
        /\ dataset_file \in {"refcoco", "refcoco+", "refcocog"} =>
              /\ builder.name = "build_refexp" /\ phase = "other"
              /\ builder.arg = dataset_file
        /\ dataset_file \notin {"mevis", "ytvos", "davis",
                                "refcoco", "refcoco+", "refcocog"} =>
              /\ builder = NoBuilder /\ phase = "error"
              /\ metas = <<>> /\ mask_dict = <<>>
        /\ phase # "ready" => metas = <<>> /\ mask_dict = <<>>

\* 'refcoco+' has been dispatched to the refexp builder
C8_Witness ==
    /\ dataset_file = "refcoco+"
    /\ phase = "other"
    /\ builder = [name |-> "build_refexp", arg |-> "refcoco+"]

\* catalog entry i has a positive mask pixel at some frame of its video
HasVisibleFrame(i) ==
    \E f \in 0..(Len(metas[i + 1].frames) - 1) :
        UnionOfEntries(metas[i + 1].anno_id, f) # {}

\* C9: if some catalog task can yield a valid frame, then under fair
\* resampling a call, whatever its starting index, eventually returns.
C9_CallReturns ==
    (pc[LoopWorker] = "lookup" /\ \E i \in 0..(Len(metas) - 1) : HasVisibleFrame(i))
        ~> (pc[LoopWorker] = "returned")

\* a call at an index whose own task can never yield a valid frame, in a
\* catalog where another task can
C9_Witness ==
    \E w \in WorkerIds :
        /\ pc[w] = "lookup"
        /\ rng = 0
        /\ ~HasVisibleFrame(idx[w])
        /\ \E i \in 0..(Len(metas) - 1) : HasVisibleFrame(i)

\* the caption c is exp lowercased with every whitespace run collapsed to
\* one space and none at either end
IsCleaned(c, exp) ==
    LET isWordStart(s, i) == s[i] # " " /\ (i = 1 \/ s[i - 1] = " ")
        words(s) == Cardinality({i \in DOMAIN s : isWordStart(s, i)})
        letters(s) == SelectSeq(s, LAMBDA ch : ch # " ")
    IN  /\ letters(c) = [k \in DOMAIN letters(exp) |-> LowerChar(letters(exp)[k])]
        /\ words(c) = words(exp)
        /\ \A i \in DOMAIN c : c[i] = " " => i > 1 /\ i < Len(c) /\ c[i + 1] # " "

\* C10: the index of an attempt is always a catalog index, and the caption,
\* video_id, frame indices and exp_id of a built or returned sample are those
\* of the catalog entry at the current index, the last one attempted.
C10_SampleBelongsToCurrentTask ==
    \A w \in WorkerIds :
        /\ pc[w] # "idle" => idx[w] \in 0..(Len(metas) - 1)
        /\ pc[w] \in Inside =>
              LET meta == metas[idx[w] + 1]
                  t == target[w]
              IN  /\ t.exp_id = idx[w]
                  /\ t.video_id = meta.video
                  /\ IsCleaned(t.caption, meta.exp)
                  /\ Len(t.frames_idx) = num_frames
                  /\ \A j \in 1..num_frames :
                        t.frames_idx[j] \in 0..(Len(meta.frames) - 1)
                  /\ Len(t.valid) = num_frames

\* a sample of the last catalog entry returned after a retry, its caption
\* cleaned from " b" or "b A"
C10_Witness ==
    /\ pc["w1"] = "returned"
    /\ rng = 1
    /\ idx["w1"] = Len(metas) - 1
    /\ Len(metas) > 1
    /\ target["w1"].caption # metas[idx["w1"] + 1].exp

====
